---- MODULE Spec2Model ----
(***************************************************************************)
(* Model of src/error.rs of rust-jsonrpc: the StandardError catalogue,     *)
(* standard_error and result_to_response, called from concurrent threads   *)
(* (the test harness runs the module's tests on separate threads).         *)
(***************************************************************************)
EXTENDS Integers, FiniteSets, Sequences, TLC

\* Number of caller threads.
NumThreads == 2

Threads == 1..NumThreads

----------------------------------------------------------------------------
\* Option<T>
None == [some |-> FALSE]
Some(v) == [some |-> TRUE, val |-> v]
is_some(o) == o.some
is_none(o) == ~o.some

\* serialize::json::Json values used by the callers.  The variant tag is part
\* of the value: U64(1) and I64(1) are different values.
Null == [tag |-> "Null"]
U64(n) == [tag |-> "U64", num |-> n]
I64(n) == [tag |-> "I64", num |-> n]
String(s) == [tag |-> "String", str |-> s]

\* Result<T, Error>
Ok(v) == [tag |-> "Ok", val |-> v]
Err(e) == [tag |-> "Err", val |-> e]

\* enum StandardError
ParseError == "ParseError"
InvalidRequest == "InvalidRequest"
MethodNotFound == "MethodNotFound"
InvalidParams == "InvalidParams"
InternalError == "InternalError"
StandardError ==
  {ParseError, InvalidRequest, MethodNotFound, InvalidParams, InternalError}

\* struct Error
Error(code, message, data) ==
  [code |-> code, message |-> message, data |-> data]

\* struct Response
Response(result, error, id) ==
  [result |-> result, error |-> error, id |-> id]

----------------------------------------------------------------------------
\* Variants of standard_error with one slip each, used to show that the
\* properties below depend on the catalogue.
\* Two codes exchanged between neighbouring arms.
standard_error_swapped(code, data) ==
  CASE code = ParseError     -> Error(-32700, "Parse error", data)
    [] code = InvalidRequest -> Error(-32601, "Invalid Request", data)
    [] code = MethodNotFound -> Error(-32600, "Method not found", data)
    [] code = InvalidParams  -> Error(-32602, "Invalid params", data)
    [] code = InternalError  -> Error(-32603, "Internal error", data)

\* One arm forgets the caller's data.
standard_error_nodata(code, data) ==
  CASE code = ParseError     -> Error(-32700, "Parse error", data)
    [] code = InvalidRequest -> Error(-32600, "Invalid Request", data)
    [] code = MethodNotFound -> Error(-32601, "Method not found", data)
    [] code = InvalidParams  -> Error(-32602, "Invalid params", data)
    [] code = InternalError  -> Error(-32603, "Internal error", None)

\* One kind has no arm: the call yields no Error.
standard_error_partial(code, data) ==
  CASE code = ParseError     -> Error(-32700, "Parse error", data)
    [] code = InvalidRequest -> Error(-32600, "Invalid Request", data)
    [] code = MethodNotFound -> Error(-32601, "Method not found", data)
    [] code = InvalidParams  -> Error(-32602, "Invalid params", data)
    [] OTHER                 -> [tag |-> "NoValue"]

\* One code loses its sign.
standard_error_sign(code, data) ==
  CASE code = ParseError     -> Error(32700, "Parse error", data)
    [] code = InvalidRequest -> Error(-32600, "Invalid Request", data)
    [] code = MethodNotFound -> Error(-32601, "Method not found", data)
    [] code = InvalidParams  -> Error(-32602, "Invalid params", data)
    [] code = InternalError  -> Error(-32603, "Internal error", data)

\* An arm copied from its neighbour without changing code and message.
standard_error_copied(code, data) ==
  CASE code = ParseError     -> Error(-32700, "Parse error", data)
    [] code = InvalidRequest -> Error(-32600, "Invalid Request", data)
    [] code = MethodNotFound -> Error(-32600, "Invalid Request", data)
    [] code = InvalidParams  -> Error(-32602, "Invalid params", data)
    [] code = InternalError  -> Error(-32603, "Internal error", data)

\* pub fn standard_error(code: StandardError, data: Option<json::Json>) -> Error
standard_error(code, data) ==
  CASE code = ParseError     -> Error(-32700, "Parse error", data)
    [] code = InvalidRequest -> Error(-32600, "Invalid Request", data)
    [] code = MethodNotFound -> Error(-32601, "Method not found", data)
    [] code = InvalidParams  -> Error(-32602, "Invalid params", data)
    [] code = InternalError  -> Error(-32603, "Internal error", data)

\* Variants of result_to_response with one slip each.
\* The failure arm also fills result.
result_to_response_both(result, id) ==
  CASE result.tag = "Ok"  -> Response(Some(result.val), None, id)
    [] result.tag = "Err" -> Response(Some(Null), Some(result.val), id)

\* The failure arm rebuilds the error and loses its data.
result_to_response_lossy(result, id) ==
  CASE result.tag = "Ok"  -> Response(Some(result.val), None, id)
    [] result.tag = "Err" ->
         Response(None, Some(Error(result.val.code, result.val.message, None)), id)

\* The success arm puts the id where the payload belongs.
result_to_response_mixed(result, id) ==
  CASE result.tag = "Ok"  -> Response(Some(id), None, id)
    [] result.tag = "Err" -> Response(None, Some(result.val), id)

\* The failure arm answers with a null id.
result_to_response_nullid(result, id) ==
  CASE result.tag = "Ok"  -> Response(Some(result.val), None, id)
    [] result.tag = "Err" -> Response(None, Some(result.val), Null)

\* pub fn result_to_response(result: JsonResult<json::Json>, id: json::Json) -> Response
result_to_response(result, id) ==
  CASE result.tag = "Ok"  -> Response(Some(result.val), None, id)
    [] result.tag = "Err" -> Response(None, Some(result.val), id)

----------------------------------------------------------------------------
\* Inputs the callers draw from.  Ids: one of each shape a request id takes
\* (unsigned, negative signed, string, null).
IdValues == {U64(1), I64(-1), String("123"), Null}
DataValues == {None, Some(String("detail"))}
PayloadValues == {String("pong"), Null}
\* Errors that did not come from the catalogue.
AppErrors == {Error(1, "Application error", d) : d \in DataValues}
ResultValues == {Ok(p) : p \in PayloadValues} \cup {Err(e) : e \in AppErrors}

NoArgs == [op |-> "none"]
NoValue == [tag |-> "NoValue"]

VARIABLES
  pc,    \* pc[t]: where thread t is
  args,  \* args[t]: the arguments of t's call in progress (its own frame)
  ret    \* ret[t]: the value t's last call returned

vars == <<pc, args, ret>>

Init ==
  /\ pc = [t \in Threads |-> "idle"]
  /\ args = [t \in Threads |-> NoArgs]
  /\ ret = [t \in Threads |-> NoValue]

\* Thread t calls standard_error(code, data): the arguments move into its frame.
CallStandardError(t, code, data) ==
  /\ pc[t] = "idle"
  /\ pc' = [pc EXCEPT ![t] = "standard_error"]
  /\ args' = [args EXCEPT ![t] = [op |-> "standard_error", code |-> code, data |-> data]]
  /\ UNCHANGED ret

\* Variant of ReturnStandardError in which the arguments live in one buffer
\* shared by all threads: the body reads the arguments of any call in progress.
ReturnStandardError_shared(t) ==
  /\ pc[t] = "standard_error"
  /\ \E u \in Threads :
       /\ pc[u] = "standard_error"
       /\ ret' = [ret EXCEPT ![t] = standard_error(args[u].code, args[u].data)]
  /\ pc' = [pc EXCEPT ![t] = "standard_error_done"]
  /\ UNCHANGED args

\* The body of standard_error runs on t's frame and returns.
ReturnStandardError(t) ==
  /\ pc[t] = "standard_error"
  /\ ret' = [ret EXCEPT ![t] = standard_error(args[t].code, args[t].data)]
  /\ pc' = [pc EXCEPT ![t] = "standard_error_done"]
  /\ UNCHANGED args

\* Thread t calls result_to_response(result, id).
CallResultToResponse(t, result, id) ==
  /\ pc[t] = "idle"
  /\ pc' = [pc EXCEPT ![t] = "result_to_response"]
  /\ args' = [args EXCEPT ![t] = [op |-> "result_to_response", result |-> result, id |-> id]]
  /\ UNCHANGED ret

\* Thread t passes the Error it just built: result_to_response(Err(standard_error(..)), id).
CallResultToResponseErr(t, id) ==
  /\ pc[t] = "standard_error_done"
  /\ pc' = [pc EXCEPT ![t] = "result_to_response"]
  /\ args' = [args EXCEPT ![t] = [op |-> "result_to_response", result |-> Err(ret[t]),
                                  id |-> id, kind |-> args[t].code]]
  /\ UNCHANGED ret

\* The body of result_to_response runs on t's frame and returns.
ReturnResultToResponse(t) ==
  /\ pc[t] = "result_to_response"
  /\ ret' = [ret EXCEPT ![t] = result_to_response(args[t].result, args[t].id)]
  /\ pc' = [pc EXCEPT ![t] = "result_to_response_done"]
  /\ UNCHANGED args

\* The caller is done with the returned value; it goes out of scope.
Finish(t) ==
  /\ pc[t] \in {"standard_error_done", "result_to_response_done"}
  /\ pc' = [pc EXCEPT ![t] = "idle"]
  /\ args' = [args EXCEPT ![t] = NoArgs]
  /\ ret' = [ret EXCEPT ![t] = NoValue]

Next ==
  \E t \in Threads :
    \/ \E code \in StandardError, data \in DataValues : CallStandardError(t, code, data)
    \/ ReturnStandardError(t)
    \/ \E result \in ResultValues, id \in IdValues : CallResultToResponse(t, result, id)
    \/ \E id \in IdValues : CallResultToResponseErr(t, id)
    \/ ReturnResultToResponse(t)
    \/ Finish(t)

Spec == Init /\ [][Next]_vars

----------------------------------------------------------------------------
\* The canonical code/message table of the JSON-RPC specification, written
\* out independently of standard_error.
CanonicalTable ==
  [k \in StandardError |->
     CASE k = "ParseError"     -> <<-32700, "Parse error">>
       [] k = "InvalidRequest" -> <<-32600, "Invalid Request">>
       [] k = "MethodNotFound" -> <<-32601, "Method not found">>
       [] k = "InvalidParams"  -> <<-32602, "Invalid params">>
       [] k = "InternalError"  -> <<-32603, "Internal error">>]

SEDone(t) == pc[t] = "standard_error_done"
RRDone(t) == pc[t] = "result_to_response_done"

\* C1: for every kind and every data argument, the Error returned by
\* standard_error carries exactly the table's (code, message) pair for that
\* kind, whatever data was supplied.
C1_TablePair ==
  \A t \in Threads :
    SEDone(t) =>
      <<ret[t].code, ret[t].message>> = CanonicalTable[args[t].code]

\* A call for the last kind with data supplied has returned.
C1_Witness ==
  \E t \in Threads :
    /\ SEDone(t)
    /\ args[t].code = InternalError
    /\ is_some(args[t].data)
    /\ ret[t].code = -32603

\* C2: every Response returned by result_to_response has exactly one of
\* result and error present, never both and never neither.
C2_ExactlyOne ==
  \A t \in Threads :
    RRDone(t) => (is_some(ret[t].result) # is_some(ret[t].error))

\* One thread holds a success Response while another holds a failure Response.
C2_Witness ==
  \E t, u \in Threads :
    /\ RRDone(t) /\ args[t].result.tag = "Ok"
    /\ RRDone(u) /\ args[u].result.tag = "Err"

\* C3: for every Error e and every id, result_to_response(Err(e), id) has
\* result absent and error = Some(e), code, message and data as in e; when e
\* was built by standard_error for kind k, the code is the table code of k.
C3_ErrPassedThrough ==
  \A t \in Threads :
    (RRDone(t) /\ args[t].result.tag = "Err") =>
      /\ is_none(ret[t].result)
      /\ is_some(ret[t].error)
      /\ ret[t].error.val.code = args[t].result.val.code
      /\ ret[t].error.val.message = args[t].result.val.message
      /\ ret[t].error.val.data = args[t].result.val.data
      /\ ("kind" \in DOMAIN args[t] =>
            ret[t].error.val.code = CanonicalTable[args[t].kind][1])

\* A Response built from a catalogue Error with data is held by one thread, and
\* one built from an application Error by another.
C3_Witness ==
  \E t, u \in Threads :
    /\ RRDone(t) /\ "kind" \in DOMAIN args[t]
    /\ args[t].kind = MethodNotFound
    /\ is_some(ret[t].error.val.data)
    /\ RRDone(u) /\ args[u].result.tag = "Err"
    /\ "kind" \notin DOMAIN args[u]
    /\ ret[u].error.val.code = 1

\* C4: for every payload p and every id, result_to_response(Ok(p), id) has
\* result = Some(p), the payload unchanged, and error absent.
C4_OkPassedThrough ==
  \A t \in Threads :
    (RRDone(t) /\ args[t].result.tag = "Ok") =>
      /\ ret[t].result = Some(args[t].result.val)
      /\ ret[t].error = None

\* A success Response whose payload differs from its id has been returned.
C4_Witness ==
  \E t \in Threads :
    /\ RRDone(t) /\ args[t].result.tag = "Ok"
    /\ args[t].result.val = String("pong")
    /\ args[t].id = U64(1)

\* C5: for every outcome and every id (unsigned, signed, negative, string or
\* null), the Response carries the id that was passed in, on both branches.
C5_IdEchoed ==
  \A t \in Threads :
    RRDone(t) => ret[t].id = args[t].id

\* A failure Response with a string id and a success Response with a negative
\* id are held at the same time.
C5_Witness ==
  \E t, u \in Threads :
    /\ RRDone(t) /\ args[t].result.tag = "Err" /\ args[t].id = String("123")
    /\ RRDone(u) /\ args[u].result.tag = "Ok" /\ args[u].id = I64(-1)

\* C6: for every kind and every data argument, the Error returned by
\* standard_error has data equal to the data passed in: a supplied value is
\* kept, an absent one stays absent.
C6_DataPassedThrough ==
  \A t \in Threads :
    SEDone(t) => ret[t].data = args[t].data

\* One call returned with supplied data and another with none.
C6_Witness ==
  \E t, u \in Threads :
    /\ SEDone(t) /\ args[t].code = InternalError /\ is_some(args[t].data)
    /\ SEDone(u) /\ is_none(args[u].data)

IsOption(o) ==
  /\ "some" \in DOMAIN o
  /\ o.some \in BOOLEAN
  /\ (o.some => DOMAIN o = {"some", "val"})
  /\ (~o.some => DOMAIN o = {"some"})

IsError(e) ==
  /\ DOMAIN e = {"code", "message", "data"}
  /\ e.code \in Int
  /\ IsOption(e.data)

IsResponse(r) ==
  /\ DOMAIN r = {"result", "error", "id"}
  /\ IsOption(r.result)
  /\ IsOption(r.error)

\* C7: both operations are total: every call in progress can return, and
\* what standard_error returns is an Error and what result_to_response returns
\* is a Response, for every kind and every input.
C7_Total ==
  \A t \in Threads :
    /\ pc[t] = "standard_error" => ENABLED ReturnStandardError(t)
    /\ pc[t] = "result_to_response" => ENABLED ReturnResultToResponse(t)
    /\ SEDone(t) => IsError(ret[t])
    /\ RRDone(t) => IsResponse(ret[t])

\* A call for the last kind of the enumeration has returned an Error while a
\* call of result_to_response has returned a Response.
C7_Witness ==
  \E t, u \in Threads :
    /\ SEDone(t) /\ args[t].code = InternalError /\ IsError(ret[t])
    /\ RRDone(u) /\ IsResponse(ret[u])

\* What a returned call yields when it is the only call made.
ReturnedAlone(t) ==
  /\ SEDone(t) => ret[t] = standard_error(args[t].code, args[t].data)
  /\ RRDone(t) => ret[t] = result_to_response(args[t].result, args[t].id)

\* A step of one thread leaves every other thread's frame and value alone.
OthersUntouched ==
  \A t \in Threads :
    (pc'[t] # pc[t] \/ args'[t] # args[t] \/ ret'[t] # ret[t]) =>
      \A u \in Threads \ {t} :
        pc'[u] = pc[u] /\ args'[u] = args[u] /\ ret'[u] = ret[u]

\* C8: in every interleaving of calls made by different threads, each call
\* returns what the same call returns when run alone on its inputs, and no
\* step of one call reads or writes anything of another call.
C8_Interleaving ==
  /\ [](\A t \in Threads : ReturnedAlone(t))
  /\ [][OthersUntouched]_vars

\* One call has returned while another call of the same operation, with
\* different arguments, is in progress.
C8_Witness ==
  \E t, u \in Threads :
    /\ SEDone(t)
    /\ pc[u] = "standard_error"
    /\ args[u].code # args[t].code
    /\ args[u].data # args[t].data

\* C9: every code standard_error produces is a negative integer in the
\* reserved range [-32768, -32000].
C9_ReservedRange ==
  \A t \in Threads :
    SEDone(t) =>
      /\ ret[t].code < 0
      /\ ret[t].code >= -32768
      /\ ret[t].code <= -32000

\* The lowest and the highest catalogue code have both been returned.
C9_Witness ==
  \E t, u \in Threads :
    /\ SEDone(t) /\ args[t].code = ParseError /\ ret[t].code = -32700
    /\ SEDone(u) /\ args[u].code = InvalidRequest /\ ret[u].code = -32600

\* C10: kind -> code and kind -> message are injective: calls for two
\* different kinds, with any data, return different codes and different
\* messages.
C10_Injective ==
  \A t, u \in Threads :
    (SEDone(t) /\ SEDone(u) /\ args[t].code # args[u].code) =>
      /\ ret[t].code # ret[u].code
      /\ ret[t].message # ret[u].message

\* Calls for two neighbouring kinds, with different data, have both returned.
C10_Witness ==
  \E t, u \in Threads :
    /\ SEDone(t) /\ args[t].code = InvalidRequest
    /\ SEDone(u) /\ args[u].code = MethodNotFound
    /\ args[t].data # args[u].data

====
